---- MODULE Spec2Model ----
(***************************************************************************)
(* Model of platforms/evm/src/signer.ts: the signer factories              *)
(* (getEvmSigner, getQuaiSigner, getEvmSignerForKey,                        *)
(* getEvmSignerForSigner, getQuaiSignerForSigner) and the two sign methods  *)
(* (EvmNativeSigner.sign, QuaiNativeSigner.sign).                           *)
(*                                                                         *)
(* A JavaScript object is a function from the names of its present fields  *)
(* to their values; an undefined (or null) field is absent from the        *)
(* domain.  Every await is one action: the call and its answer.            *)
(* Fee amounts are in units of 10^8 wei (0.1 gwei).                         *)
(***************************************************************************)
EXTENDS Integers, Sequences, FiniteSets, TLC

VARIABLES
    pc,         \* position of the one caller: idle, an await, or an outcome
    frame,      \* the factory's activation record (arguments and locals)
    handle,     \* the signer handle the factory returned
    error,      \* the error the current call threw
    netCalls,   \* the network operations the current call has invoked
    txCount,    \* the account's transaction count at the endpoint
    feeOk,      \* whether the endpoint answers getFeeData
    liveFee,    \* the fee data the endpoint answers with
    tx,         \* sign's argument: the batch of unsigned transactions
    gas,        \* sign's locals gasLimit, gasPrice, maxFeePerGas, maxPriorityFeePerGas
    nonces,     \* the values getNonce answered in this sign call
    signCalls,  \* the requests given to signTransaction in this sign call
    signed,     \* sign's local array of signed transactions
    result      \* what the sign call returned to its caller

vars == <<pc, frame, handle, error, netCalls, txCount, feeOk, liveFee,
          tx, gas, nonces, signCalls, signed, result>>

signVars == <<tx, gas, nonces, signCalls, signed, result>>
envVars == <<txCount, feeOk, liveFee>>

\* ------------------------------------------------------------------ bounds

MaxBatch == 2
MaxNonce == 1

\* --------------------------------------------------------------- constants

\* gasLimit in gas; the three fee values in units of 10^8 wei:
\* 100 gwei, 1.5 gwei and 0.1 gwei
DefaultGasLimit == 500000
DefaultGasPrice == 1000
DefaultMaxFeePerGas == 15
DefaultMaxPriorityFeePerGas == 1

QuaiTestnet == "QuaiTestnet"
Celo == "Celo"
Chains == {"Ethereum", Celo, QuaiTestnet}

\* ----------------------------------------------------------------- objects

Restrict(obj, D) == [k \in D |-> obj[k]]

EmptyObject == Restrict([to |-> 0], {})

\* { ...a, ...b }
Spread(a, b) ==
    [k \in DOMAIN a \cup DOMAIN b |-> IF k \in DOMAIN b THEN b[k] ELSE a[k]]

\* obj?.k ?? dflt
Coalesce(obj, k, dflt) == IF k \in DOMAIN obj THEN obj[k] ELSE dflt

\* ------------------------------------------------------------------ inputs

Addresses == {101}

GasLimits == {10}
MaxGasLimits == {5, 600000}

FullOverrides ==
    [to |-> 70, gasLimit |-> 71, gasPrice |-> 72, maxFeePerGas |-> 73,
     maxPriorityFeePerGas |-> 74, from |-> 75, nonce |-> 76]
OverrideDomains ==
    {{}, {"gasLimit"},
     {"to", "gasPrice", "maxFeePerGas", "maxPriorityFeePerGas", "from", "nonce"}}
OverrideMaps == {Restrict(FullOverrides, D) : D \in OverrideDomains}

SignerOptionKeys == {"gasLimit", "maxGasLimit", "overrides"}

MkOptions(D, c, g, m, o) ==
    [k \in D |-> CASE k = "chain" -> c
                   [] k = "gasLimit" -> g
                   [] k = "maxGasLimit" -> m
                   [] k = "overrides" -> o]

\* EvmSignerOptions
SignerOptions ==
    UNION {{MkOptions(D, QuaiTestnet, g, m, o) :
              g \in GasLimits, m \in MaxGasLimits, o \in OverrideMaps} :
           D \in SUBSET SignerOptionKeys}

\* EvmSignerOptions & { chain?: EvmChains }: every signer option with a chain,
\* and without a chain no option, one option, or all of them
Options ==
    {Spread(o, [chain |-> c]) : o \in SignerOptions, c \in Chains}
    \cup {o \in SignerOptions : Cardinality(DOMAIN o) # 2}

\* string | EthersSigner
Keys ==
    {[kind |-> "string", provider |-> FALSE],
     [kind |-> "signer", provider |-> TRUE],
     [kind |-> "signer", provider |-> FALSE]}

FeeFields == {"gasPrice", "maxFeePerGas", "maxPriorityFeePerGas"}
FullFeeData == [gasPrice |-> 2000, maxFeePerGas |-> 30, maxPriorityFeePerGas |-> 2]
FeeDomains == {{"gasPrice"}, {"maxFeePerGas"}, FeeFields}
FeeDatas == {Restrict(FullFeeData, D) : D \in FeeDomains}

\* UnsignedTransaction.transaction
Payloads ==
    {[to |-> 1, gasLimit |-> 21000, gasPrice |-> 9, maxFeePerGas |-> 9],
     [to |-> 2, from |-> 103, nonce |-> 9]}

RECURSIVE SeqsUpTo(_, _)
SeqsUpTo(S, n) ==
    IF n = 0 THEN {<<>>}
    ELSE LET shorter == SeqsUpTo(S, n - 1)
         IN shorter \cup {Append(s, x) : s \in {t \in shorter : Len(t) = n - 1}, x \in S}

Batches == SeqsUpTo(Payloads, MaxBatch)

\* ------------------------------------------------------------ the factories

NoKey == [kind |-> "none", provider |-> FALSE]

NoFrame ==
    [entry |-> "none", key |-> NoKey, opts |-> EmptyObject, chain |-> "undefined",
     backend |-> "undefined", signerChain |-> "undefined", provider |-> FALSE]

NoHandle ==
    [backend |-> "none", chain |-> "undefined", address |-> 0, provider |-> FALSE,
     opts |-> EmptyObject]

NoResult == [kind |-> "pending", value |-> <<>>]

\* chain === 'QuaiTestnet'
IsQuai(chain) == chain = QuaiTestnet

\* faulty variant: the fallback tag is the default chain of the platform
QuaiChainWrongTag(opts) == Coalesce(opts, "chain", "Ethereum")

\* opts?.chain ?? 'QuaiTestnet'
QuaiChain(opts) == Coalesce(opts, "chain", QuaiTestnet)

\* faulty variant: the provider check is left out
MissingProviderUnchecked(signer) == FALSE

\* !signer.provider
MissingProvider(signer) == ~signer.provider

Throw(e) ==
    /\ pc' = "threw"
    /\ error' = e

\* getQuaiSigner, up to its await of getAddress
GetQuaiSignerBody(f) ==
    IF f.key.kind = "string"
    THEN \E hasUrl \in BOOLEAN, walletOk \in BOOLEAN :
            IF ~hasUrl
            THEN /\ Throw("Unable to extract RPC URL for Quai provider")
                 /\ frame' = f
            ELSE IF ~walletOk
            THEN /\ Throw("invalid private key")
                 /\ frame' = f
            ELSE /\ pc' = "getAddress"
                 /\ error' = error
                 /\ frame' = [f EXCEPT !.backend = "quai", !.provider = TRUE,
                                       !.signerChain = QuaiChain(f.opts)]
    ELSE /\ pc' = "getAddress"
         /\ error' = error
         /\ frame' = [f EXCEPT !.backend = "quai", !.provider = f.key.provider,
                               !.signerChain = QuaiChain(f.opts)]

\* getEvmSigner's default path, up to its await of getAddress.  The result of
\* managedSigner.connect(rpc) is dropped, so the signer keeps its provider.
DefaultSignerBody(f) ==
    IF f.key.kind = "string"
    THEN \E walletOk \in BOOLEAN :
            IF ~walletOk
            THEN /\ Throw("invalid private key")
                 /\ frame' = f
            ELSE /\ pc' = "getAddress"
                 /\ error' = error
                 /\ frame' = [f EXCEPT !.backend = "evm", !.provider = TRUE,
                                       !.signerChain = f.chain]
    ELSE /\ pc' = "getAddress"
         /\ error' = error
         /\ frame' = [f EXCEPT !.backend = "evm", !.provider = f.key.provider,
                               !.signerChain = f.chain]

\* getEvmSigner once the chain is resolved
Dispatch(f) ==
    IF IsQuai(f.chain) THEN GetQuaiSignerBody(f) ELSE DefaultSignerBody(f)

\* getEvmSigner up to its first await
Enter(entry, key, opts) ==
    LET f == [NoFrame EXCEPT !.entry = entry, !.key = key, !.opts = opts]
    IN IF "chain" \in DOMAIN opts
       THEN Dispatch([f EXCEPT !.chain = opts.chain])
       ELSE /\ pc' = "chainFromRpc"
            /\ error' = error
            /\ frame' = f

getEvmSigner ==
    /\ pc = "idle"
    /\ \E key \in Keys, opts \in Options : Enter("getEvmSigner", key, opts)
    /\ UNCHANGED <<handle, netCalls, envVars, signVars>>

getEvmSignerForKey ==
    /\ pc = "idle"
    /\ Enter("getEvmSignerForKey", [kind |-> "string", provider |-> FALSE], EmptyObject)
    /\ UNCHANGED <<handle, netCalls, envVars, signVars>>

getEvmSignerForSigner ==
    /\ pc = "idle"
    /\ \E signer \in {k \in Keys : k.kind = "signer"} :
          IF MissingProvider(signer)
          THEN /\ Throw("Signer must have a provider")
               /\ frame' = [NoFrame EXCEPT !.entry = "getEvmSignerForSigner",
                                           !.key = signer]
          ELSE Enter("getEvmSignerForSigner", signer, EmptyObject)
    /\ UNCHANGED <<handle, netCalls, envVars, signVars>>

getQuaiSignerForSigner ==
    /\ pc = "idle"
    /\ \E signer \in {k \in Keys : k.kind = "signer"} :
          IF MissingProvider(signer)
          THEN /\ Throw("Quai signer must have a provider")
               /\ frame' = [NoFrame EXCEPT !.entry = "getQuaiSignerForSigner",
                                           !.key = signer]
          ELSE Enter("getQuaiSignerForSigner", signer, [chain |-> QuaiTestnet])
    /\ UNCHANGED <<handle, netCalls, envVars, signVars>>

\* await EvmPlatform.chainFromRpc(rpc)
ChainFromRpc ==
    /\ pc = "chainFromRpc"
    /\ netCalls' = netCalls \cup {"chainFromRpc"}
    /\ \/ /\ Throw("chainFromRpc")
          /\ frame' = frame
       \/ \E c \in Chains : Dispatch([frame EXCEPT !.chain = c])
    /\ UNCHANGED <<handle, envVars, signVars>>

\* await signer.getAddress(), then the constructor; the factory returns
GetAddress ==
    /\ pc = "getAddress"
    /\ \/ /\ Throw("getAddress")
          /\ netCalls' = netCalls \cup {"getAddress"}
          /\ UNCHANGED <<frame, handle>>
       \/ \E a \in Addresses :
            /\ pc' = "ready"
            /\ error' = error
            /\ handle' = [backend |-> frame.backend, chain |-> frame.signerChain,
                          address |-> a, provider |-> frame.provider,
                          opts |-> frame.opts]
            /\ frame' = NoFrame
            /\ netCalls' = {}
    /\ UNCHANGED <<envVars, signVars>>

\* ------------------------------------------------------------------ sign

\* Default gas values
Defaults(backend) ==
    IF backend = "evm"
    THEN [gasLimit |-> DefaultGasLimit, gasPrice |-> DefaultGasPrice,
          maxFeePerGas |-> DefaultMaxFeePerGas,
          maxPriorityFeePerGas |-> DefaultMaxPriorityFeePerGas]
    ELSE [gasLimit |-> DefaultGasLimit, gasPrice |-> DefaultGasPrice]

\* faulty variant: the Celo exception is left out
FetchesFeeDataOnCelo(h) == "overrides" \notin DOMAIN h.opts

\* whether sign asks the provider for fee data
FetchesFeeData(h) ==
    /\ "overrides" \notin DOMAIN h.opts
    /\ h.backend = "evm" => h.chain # Celo

\* faulty variant: only the legacy gas price is taken from the fee data
ApplyFeeDataGasPriceOnly(g, feeData) ==
    [k \in DOMAIN g |-> IF k = "gasPrice" THEN Coalesce(feeData, k, g[k]) ELSE g[k]]

\* gasPrice = feeData.gasPrice ?? gasPrice; ...
ApplyFeeData(g, feeData) ==
    [k \in DOMAIN g |-> IF k \in FeeFields THEN Coalesce(feeData, k, g[k]) ELSE g[k]]

\* faulty variant: no try/catch in either backend
SwallowsFeeFailureNever(backend) == FALSE

\* the try/catch around getFeeData in QuaiNativeSigner.sign
SwallowsFeeFailure(backend) == backend = "quai"

\* faulty variant: the clamp compares the wrong way round
ResolveGasLimitMax(opts, gasLimit) ==
    LET g == Coalesce(opts, "gasLimit", gasLimit)
    IN IF "maxGasLimit" \in DOMAIN opts
       THEN IF g < opts.maxGasLimit THEN opts.maxGasLimit ELSE g
       ELSE g

\* the gasLimit and maxGasLimit options
ResolveGasLimit(opts, gasLimit) ==
    LET g == Coalesce(opts, "gasLimit", gasLimit)
    IN IF "maxGasLimit" \in DOMAIN opts
       THEN IF g > opts.maxGasLimit THEN opts.maxGasLimit ELSE g
       ELSE g

\* const gasOpts = { ... }
GasOpts(backend, g) ==
    IF backend = "evm"
    THEN Restrict(g, {"gasLimit", "maxFeePerGas", "maxPriorityFeePerGas"})
    ELSE Restrict(g, {"gasLimit", "gasPrice"})

\* faulty variant: the overrides are spread before the computed fields
AssembleOverridesEarly(transaction, gasOpts, from, nonce, opts) ==
    Spread(Spread(Spread(transaction, Coalesce(opts, "overrides", EmptyObject)), gasOpts),
           [from |-> from, nonce |-> nonce])

\* the TransactionRequest t
Assemble(transaction, gasOpts, from, nonce, opts) ==
    Spread(Spread(Spread(transaction, gasOpts), [from |-> from, nonce |-> nonce]),
           Coalesce(opts, "overrides", EmptyObject))

\* the answer of this._signer.getNonce(): the account's transaction count.
\* NonceManager.getNonce() without the "pending" tag passes the query on, and
\* signTransaction does not increment the manager.
GetNonceAnswer(h) == txCount

\* the signed transaction the native signTransaction gives for request t
SignTransactionAnswer(t) == [raw |-> t]

\* faulty variant: unshift instead of push
PushFront(arr, s) == <<s>> \o arr

\* signed.push(...)
Push(arr, s) == Append(arr, s)

\* faulty variant: the loop's failure is caught and the results so far are returned
RejectedWithPartial(arr) == [kind |-> "value", value |-> arr]

\* what sign's caller gets when a step of the loop throws: nothing
Rejected(arr) == [kind |-> "error", value |-> <<>>]

\* return signed
Returned(arr) == [kind |-> "value", value |-> arr]

\* the code after the fee data, up to the first await of the loop
EnterLoop(batch, g) ==
    /\ gas' = [g EXCEPT !.gasLimit = ResolveGasLimit(handle.opts, g.gasLimit)]
    /\ IF batch = <<>>
       THEN /\ pc' = "returned"
            /\ result' = Returned(<<>>)
       ELSE /\ pc' = "getNonce"
            /\ result' = NoResult

\* sign(tx), up to its first await
Sign ==
    /\ pc = "ready"
    /\ \E batch \in Batches :
        /\ tx' = batch
        /\ signed' = <<>>
        /\ nonces' = <<>>
        /\ signCalls' = <<>>
        /\ error' = error
        /\ IF FetchesFeeData(handle)
           THEN /\ pc' = "getFeeData"
                /\ gas' = Defaults(handle.backend)
                /\ result' = NoResult
           ELSE EnterLoop(batch, Defaults(handle.backend))
    /\ UNCHANGED <<frame, handle, netCalls, envVars>>

\* await this._signer.provider!.getFeeData()
GetFeeData ==
    /\ pc = "getFeeData"
    /\ netCalls' = IF handle.provider THEN netCalls \cup {"getFeeData"} ELSE netCalls
    /\ IF handle.provider /\ feeOk
       THEN /\ EnterLoop(tx, ApplyFeeData(gas, liveFee))
            /\ error' = error
       ELSE IF SwallowsFeeFailure(handle.backend)
       THEN /\ EnterLoop(tx, gas)
            /\ error' = error
       ELSE /\ Throw("getFeeData")
            /\ result' = Rejected(signed)
            /\ gas' = gas
    /\ UNCHANGED <<frame, handle, envVars, tx, nonces, signCalls, signed>>

\* await this._signer.getNonce(); a signer without provider has no endpoint
\* to ask and fails
GetNonce ==
    /\ pc = "getNonce"
    /\ netCalls' = netCalls \cup {"getNonce"}
    /\ \/ /\ Throw("getNonce")
          /\ result' = Rejected(signed)
          /\ nonces' = nonces
       \/ /\ handle.provider
          /\ pc' = "signTransaction"
          /\ nonces' = Append(nonces, GetNonceAnswer(handle))
          /\ UNCHANGED <<error, result>>
    /\ UNCHANGED <<frame, handle, envVars, tx, gas, signCalls, signed>>

\* await this._signer.signTransaction(t), signed.push, and return signed after
\* the last transaction
SignTransaction ==
    /\ pc = "signTransaction"
    /\ netCalls' = netCalls \cup {"signTransaction"}
    /\ LET i == Len(signCalls) + 1
           t == Assemble(tx[i], GasOpts(handle.backend, gas), handle.address,
                         nonces[Len(nonces)], handle.opts)
       IN /\ signCalls' = Append(signCalls, t)
          /\ \/ /\ Throw("signTransaction")
                /\ result' = Rejected(signed)
                /\ signed' = signed
             \/ /\ signed' = Push(signed, SignTransactionAnswer(t))
                /\ error' = error
                /\ IF i = Len(tx)
                   THEN /\ pc' = "returned"
                        /\ result' = Returned(signed')
                   ELSE /\ pc' = "getNonce"
                        /\ result' = result
    /\ UNCHANGED <<frame, handle, envVars, tx, gas, nonces>>

\* the caller takes the outcome of a sign call, whose activation record is
\* gone, and keeps the handle for the next call
Settle ==
    /\ pc \in {"returned", "threw"}
    /\ handle.backend # "none"
    /\ pc' = "ready"
    /\ error' = "none"
    /\ netCalls' = {}
    /\ tx' = <<>>
    /\ gas' = EmptyObject
    /\ nonces' = <<>>
    /\ signCalls' = <<>>
    /\ signed' = <<>>
    /\ result' = NoResult
    /\ UNCHANGED <<frame, handle, envVars>>

\* the ledger, while sign is suspended: some transaction of the account is
\* broadcast and counted
Broadcast ==
    /\ pc \in {"getFeeData", "getNonce", "signTransaction"}
    /\ txCount < MaxNonce
    /\ txCount' = txCount + 1
    /\ UNCHANGED <<pc, frame, handle, error, netCalls, feeOk, liveFee, signVars>>


Init ==
    /\ pc = "idle"
    /\ frame = NoFrame
    /\ handle = NoHandle
    /\ error = "none"
    /\ netCalls = {}
    /\ txCount = 0
    /\ feeOk \in BOOLEAN
    /\ liveFee \in IF feeOk THEN FeeDatas ELSE {EmptyObject}
    /\ tx = <<>>
    /\ gas = EmptyObject
    /\ nonces = <<>>
    /\ signCalls = <<>>
    /\ signed = <<>>
    /\ result = NoResult

Next ==
    \/ getEvmSigner
    \/ getEvmSignerForKey
    \/ getEvmSignerForSigner
    \/ getQuaiSignerForSigner
    \/ ChainFromRpc
    \/ GetAddress
    \/ Sign
    \/ GetFeeData
    \/ GetNonce
    \/ SignTransaction
    \/ Settle
    \/ Broadcast

Spec == Init /\ [][Next]_vars

\* ---------------------------------------------------------------- properties

Min(a, b) == IF a < b THEN a ELSE b

\* the fee fields each backend puts into gasOpts
BackendFeeFields(backend) ==
    IF backend = "evm" THEN {"maxFeePerGas", "maxPriorityFeePerGas"} ELSE {"gasPrice"}

\* sign is past its gas resolution
InLoop ==
    \/ pc \in {"getNonce", "signTransaction", "returned"}
    \/ pc = "threw" /\ error \in {"getNonce", "signTransaction"}

\* the request sign builds for the i-th transaction of the batch
RequestFor(i) ==
    Spread(Spread(Spread(tx[i], GasOpts(handle.backend, gas)),
                  [from |-> handle.address, nonce |-> nonces[i]]),
           IF "overrides" \in DOMAIN handle.opts THEN handle.opts.overrides
           ELSE EmptyObject)

\* C1: within one sign call the nonces answered by getNonce are strictly
\* increasing in the order the transactions are processed.
C1_NoncesStrictlyIncreasing ==
    \A i, j \in 1..Len(nonces) : i < j => nonces[i] < nonces[j]

\* C2: when sign returns, the returned sequence has as many elements as the
\* batch, and its i-th element is what signTransaction gave for the request
\* built from the i-th transaction of the batch.
C2_SameLengthSameOrder ==
    pc = "returned" =>
        /\ result.kind = "value"
        /\ Len(result.value) = Len(tx)
        /\ Len(signCalls) = Len(tx)
        /\ \A i \in 1..Len(tx) :
              /\ signCalls[i] = RequestFor(i)
              /\ result.value[i] = [raw |-> signCalls[i]]

C2_Witness ==
    /\ pc = "returned"
    /\ Len(tx) = 2
    /\ tx[1] # tx[2]
    /\ result.value[1] # result.value[2]
    /\ result.value[1].raw.to = tx[1].to

\* C3: every field present in the overrides has the override's value in every
\* request given to signTransaction.
C3_OverridesWin ==
    "overrides" \in DOMAIN handle.opts =>
        \A i \in 1..Len(signCalls) :
            \A k \in DOMAIN handle.opts.overrides :
                /\ k \in DOMAIN signCalls[i]
                /\ signCalls[i][k] = handle.opts.overrides[k]

C3_Witness ==
    /\ {"overrides", "gasLimit", "maxGasLimit"} \subseteq DOMAIN handle.opts
    /\ DOMAIN handle.opts.overrides = {"gasLimit"}
    /\ Len(signCalls) = 2
    /\ "gasLimit" \in DOMAIN tx[1]
    /\ signCalls[1].gasLimit = handle.opts.overrides.gasLimit
    /\ signCalls[1].gasLimit # gas.gasLimit
    /\ signCalls[1].gasLimit # tx[1].gasLimit

\* C4: the gas limit sign resolves is min(g, maxGasLimit) when maxGasLimit is
\* given and g otherwise, g being the gasLimit option when given and 500000
\* otherwise; it replaces the gasLimit of the payload in every request whose
\* overrides leave gasLimit alone.
C4_ResolvedGasLimit ==
    LET o == handle.opts
        g == IF "gasLimit" \in DOMAIN o THEN o.gasLimit ELSE DefaultGasLimit
        want == IF "maxGasLimit" \in DOMAIN o THEN Min(g, o.maxGasLimit) ELSE g
    IN InLoop =>
        /\ gas.gasLimit = want
        /\ \A i \in 1..Len(signCalls) :
              ("overrides" \in DOMAIN o => "gasLimit" \notin DOMAIN o.overrides)
                  => signCalls[i].gasLimit = want

C4_Witness ==
    /\ {"gasLimit", "maxGasLimit"} \subseteq DOMAIN handle.opts
    /\ handle.opts.gasLimit > handle.opts.maxGasLimit
    /\ Len(signCalls) = 1
    /\ "gasLimit" \in DOMAIN tx[1]
    /\ tx[1].gasLimit # handle.opts.maxGasLimit
    /\ signCalls[1].gasLimit = handle.opts.maxGasLimit

\* the fee fields of every request equal the live fee data, a null field
\* keeping its default
FeeFieldsAreLive ==
    \A i \in 1..Len(signCalls) :
        \A k \in BackendFeeFields(handle.backend) :
            signCalls[i][k] = IF k \in DOMAIN liveFee THEN liveFee[k]
                              ELSE Defaults(handle.backend)[k]

\* C5 as stated: with gasLimit and maxGasLimit unset and live fee data
\* available, the fee fields of every request equal the live fee data.
C5_AsStated ==
    ( /\ "gasLimit" \notin DOMAIN handle.opts
      /\ "maxGasLimit" \notin DOMAIN handle.opts
      /\ handle.provider
      /\ feeOk ) => FeeFieldsAreLive

\* C5: with gasLimit, maxGasLimit and overrides unset, the signer not a default
\* backend signer for Celo, and live fee data available, the fee fields of
\* every request equal the live fee data, a null field keeping its default.
C5_LiveFeeDataUsed ==
    ( /\ "gasLimit" \notin DOMAIN handle.opts
      /\ "maxGasLimit" \notin DOMAIN handle.opts
      /\ "overrides" \notin DOMAIN handle.opts
      /\ ~(handle.backend = "evm" /\ handle.chain = Celo)
      /\ handle.provider
      /\ feeOk ) => FeeFieldsAreLive

C5_Witness ==
    /\ handle.backend = "evm"
    /\ handle.chain # Celo
    /\ DOMAIN handle.opts \subseteq {"chain"}
    /\ handle.provider
    /\ feeOk
    /\ DOMAIN liveFee = {"maxFeePerGas"}
    /\ pc = "returned"
    /\ Len(signCalls) = 2
    /\ "maxFeePerGas" \in DOMAIN tx[1]
    /\ signCalls[1].maxFeePerGas = liveFee.maxFeePerGas
    /\ signCalls[1].maxPriorityFeePerGas = DefaultMaxPriorityFeePerGas

\* C6: a default-backend signer for Celo never asks for fee data, and its
\* fee values are the fixed defaults.
C6_CeloSkipsFeeData ==
    (handle.backend = "evm" /\ handle.chain = Celo) =>
        /\ pc # "getFeeData"
        /\ "getFeeData" \notin netCalls
        /\ InLoop => gas = [Defaults("evm") EXCEPT !.gasLimit = gas.gasLimit]

C6_Witness ==
    /\ handle.backend = "evm"
    /\ handle.chain = Celo
    /\ "overrides" \notin DOMAIN handle.opts
    /\ handle.provider
    /\ feeOk
    /\ DOMAIN liveFee = FeeFields
    /\ pc = "returned"
    /\ Len(signCalls) = 2

\* C7: a failed fee-data fetch is swallowed by the Quai backend, which goes on
\* with the default gasPrice and signs the batch; in the default backend it
\* ends the sign call before any getNonce or signTransaction call.
C7_FeeFailure ==
    /\ (handle.backend = "quai" /\ "overrides" \notin DOMAIN handle.opts
            /\ (~handle.provider \/ ~feeOk)) =>
          /\ error # "getFeeData"
          /\ InLoop => gas.gasPrice = DefaultGasPrice
          /\ pc = "returned" => Len(result.value) = Len(tx)
    /\ (handle.backend = "evm" /\ handle.chain # Celo /\ "overrides" \notin DOMAIN handle.opts
            /\ (~handle.provider \/ ~feeOk) /\ pc \notin {"ready", "getFeeData"}) =>
          /\ pc = "threw"
          /\ error = "getFeeData"
          /\ result.kind = "error"
          /\ nonces = <<>>
          /\ signCalls = <<>>
          /\ netCalls \cap {"getNonce", "signTransaction"} = {}

C7_Witness ==
    /\ handle.backend = "quai"
    /\ handle.provider
    /\ ~feeOk
    /\ "getFeeData" \in netCalls
    /\ pc = "returned"
    /\ Len(result.value) = 2
    /\ result.value[2].raw.gasPrice = DefaultGasPrice

\* C8: when getNonce or signTransaction fails for the i-th transaction, sign
\* fails with that error, its caller gets none of the i-1 signed results, and
\* nothing is queried or signed after the i-th.
C8_FailureAbortsBatch ==
    (pc = "threw" /\ handle.backend # "none" /\ error # "getFeeData") =>
        /\ error \in {"getNonce", "signTransaction"}
        /\ result.kind = "error"
        /\ result.value = <<>>
        /\ Len(signed) < Len(tx)
        /\ error = "getNonce" =>
              /\ Len(nonces) = Len(signed)
              /\ Len(signCalls) = Len(signed)
        /\ error = "signTransaction" =>
              /\ Len(nonces) = Len(signed) + 1
              /\ Len(signCalls) = Len(signed) + 1

C8_Witness ==
    /\ pc = "threw"
    /\ error = "signTransaction"
    /\ Len(tx) = 2
    /\ Len(signed) = 1
    /\ Len(signCalls) = 2
    /\ result.kind = "error"

\* C9: a signer built by getQuaiSigner has chain QuaiTestnet, and the factory
\* returns a Quai signer exactly when the resolved chain (the chain option if
\* given, else the detected chain) is QuaiTestnet.
C9_QuaiDispatch ==
    /\ [](handle.backend = "quai" => handle.chain = QuaiTestnet)
    /\ [][(pc = "getAddress" /\ pc' = "ready") =>
            LET resolved == IF "chain" \in DOMAIN frame.opts THEN frame.opts.chain
                            ELSE frame.chain
            IN /\ resolved \in Chains
               /\ handle'.backend = "quai" <=> resolved = QuaiTestnet
               /\ handle'.backend = "quai" => handle'.chain = QuaiTestnet]_vars

C9_Witness ==
    /\ pc = "ready"
    /\ handle.backend = "quai"
    /\ handle.chain = QuaiTestnet
    /\ "chain" \notin DOMAIN handle.opts

\* C10: the from-signer entry points, given a signer without provider, fail at
\* once: no network call is made and no handle is created.
C10_NoProviderFailsFirst ==
    (frame.entry \in {"getEvmSignerForSigner", "getQuaiSignerForSigner"}
        /\ ~frame.key.provider) =>
        /\ pc = "threw"
        /\ error \in {"Signer must have a provider", "Quai signer must have a provider"}
        /\ netCalls = {}
        /\ handle = NoHandle

C10_Witness ==
    /\ pc = "threw"
    /\ frame.entry = "getQuaiSignerForSigner"
    /\ ~frame.key.provider
    /\ error = "Quai signer must have a provider"

====
